---- MODULE Spec2Model ----
(***************************************************************************)
(* Flyer tracker (src/main.py): two tables, links and scans, behind HTTP   *)
(* handlers.  The store is the relational database the module connects to; *)
(* it enforces the constraints the schema declares (the unique slug of     *)
(* line 57, the foreign key of line 70).  Handlers are coroutines of one    *)
(* event loop: a handler runs to completion except where it awaits         *)
(* network I/O, which in track_scan is the geolocation lookup between the  *)
(* read of the Link and the insert of the Scan.  SpecWorkers adds several  *)
(* worker processes, whose create_link transactions interleave between the *)
(* duplicate check and the commit.                                         *)
(*                                                                         *)
(* Optional values (Python None) are sequences: <<>> is None, <<v>> is v.  *)
(* Strings that the code edits (slug, target_url) are sequences of         *)
(* characters or tokens.                                                   *)
(***************************************************************************)
EXTENDS Integers, Sequences, FiniteSets, Bags, TLC

VARIABLES
    links,        \* rows of table links
    scans,        \* rows of table scans
    nextLinkId,   \* the next value of links.id
    nextScanId,   \* the next value of scans.id
    clock,        \* datetime.now(timezone.utc), in ticks
    tracking,     \* track_scan requests suspended in geolocate_ip (a bag)
    creating,     \* create_link requests between the check and the commit (a bag)
    last          \* the request completed last and its response

vars == <<links, scans, nextLinkId, nextScanId, clock, tracking, creating, last>>

(***************************************************************************)
(* Bounds                                                                  *)
(***************************************************************************)
MaxLinkId == 2
MaxScanId == 2
MaxTracking == 1
MaxCreating == 2

(***************************************************************************)
(* Values                                                                  *)
(***************************************************************************)
None == <<>>
Some(v) == <<v>>

\* Python truth value of an optional number: None and 0 are false.
TruthyNum(o) == o # None /\ o[1] # 0
\* Python truth value of an optional string: None and "" are false.
TruthyStr(o) == o # None /\ o[1] # ""
\* a or b, on optional numbers and on optional strings
OrNum(a, b) == IF TruthyNum(a) THEN a ELSE b
OrStr(a, b) == IF TruthyStr(a) THEN a ELSE b

\* str.strip(): leading and trailing blanks removed.
RECURSIVE LStrip(_)
LStrip(s) == IF s # <<>> /\ Head(s) = " " THEN LStrip(Tail(s)) ELSE s
RECURSIVE RStrip(_)
RStrip(s) == IF s # <<>> /\ s[Len(s)] = " " THEN RStrip(SubSeq(s, 1, Len(s) - 1)) ELSE s
Strip(s) == RStrip(LStrip(s))

\* str.lower()
LowerChar(c) == CASE c = "A" -> "a" [] c = "B" -> "b" [] c = "G" -> "g" [] OTHER -> c
Lower(s) == [i \in 1..Len(s) |-> LowerChar(s[i])]

(***************************************************************************)
(* Inputs                                                                  *)
(***************************************************************************)
\* slugs as sent in a create_link body
BodySlugs == { <<" ">>, <<"a">>, <<" ", "A", " ">> }
\* slugs as sent in a URL path
PathSlugs == { <<"a">>, <<"A">>, <<"b">> }
\* what generate_slug may return
GeneratedSlugs == { <<"a">>, <<"b">> }
\* target_url as sent in a create_link body, in tokens
BodyUrls == { <<" ">>, <<"x">>, <<" ", "https://", "x">> }

CreateBodies == [slug : BodySlugs, target_url : BodyUrls]

\* an incoming request: the x-forwarded-for header split at its commas,
\* the peer address, and the headers the handler copies
Requests ==
    { [xff |-> None, client |-> None, user_agent |-> None, referer |-> None],
      [xff |-> Some(<<"8.8.8.8", "10.0.0.1">>), client |-> Some("127.0.0.1"),
       user_agent |-> Some("ua"), referer |-> Some("ref")],
      [xff |-> Some(<<"">>), client |-> Some("127.0.0.1"),
       user_agent |-> None, referer |-> None] }

\* what the geolocation provider answers
ProviderData ==
    { [status |-> "fail", city |-> None, regionName |-> None, country |-> None,
       lat |-> None, lon |-> None, isp |-> None],
      [status |-> "success", city |-> Some("Paris"), regionName |-> Some("IDF"),
       country |-> Some("France"), lat |-> Some(5), lon |-> Some(6), isp |-> Some("isp")] }

ExceptionKinds == {"timeout", "network_error", "malformed"}

\* every outcome of the one outbound lookup
NetOutcomes ==
    [kind : ExceptionKinds, data : {None}] \cup [kind : {"response"}, data : ProviderData]

\* the body of POST /t/{slug}/geo: unparseable, or a JSON object
GeoBodies ==
    { [parse_ok |-> FALSE, scan_id |-> None, lat |-> None, lng |-> None, accuracy |-> None] }
    \cup { [parse_ok |-> TRUE, scan_id |-> None, lat |-> Some(10), lng |-> Some(20),
              accuracy |-> Some(7)],
             [parse_ok |-> TRUE, scan_id |-> Some(0), lat |-> Some(10), lng |-> Some(20),
              accuracy |-> Some(7)] }
    \cup { [parse_ok |-> TRUE, scan_id |-> Some(i), lat |-> c[1], lng |-> c[2], accuracy |-> c[3]] :
             i \in 1..MaxScanId,
             c \in { <<None, None, None>>, <<Some(10), Some(20), Some(7)>>,
                     <<Some(0), Some(20), Some(7)>> } }

(***************************************************************************)
(* The store                                                               *)
(***************************************************************************)
\* Mutant: the slug of the path is lowercased before the lookup.
LinkBySlugFolded(slug) ==
    LET found == {l \in links : l.slug = Lower(slug)}
    IN IF found = {} THEN None ELSE Some(CHOOSE l \in found : TRUE)

\* db.query(Link).filter(Link.slug == slug).first()
LinkBySlug(slug) ==
    LET found == {l \in links : l.slug = slug}
    IN IF found = {} THEN None ELSE Some(CHOOSE l \in found : TRUE)

\* db.query(Scan).filter(Scan.id == scan_id).first()
ScanById(scan_id) ==
    LET found == {s \in scans : s.id = scan_id}
    IN IF found = {} THEN None ELSE Some(CHOOSE s \in found : TRUE)

\* db.query(Scan).filter(Scan.link_id == link_id)
ScansOfLink(link_id) == {s \in scans : s.link_id = link_id}

\* links.slug is unique: the store accepts a new row only with a new slug.
UniqueSlugOk(slug) == \A l \in links : l.slug # slug

\* Mutant: link_id declared without ForeignKey("links.id").
ForeignKeyOff(link_id) == TRUE

\* scans.link_id is a foreign key to links.id: the store accepts a new row
\* only if it references a row of links.
ForeignKeyOk(link_id) == \E l \in links : l.id = link_id

\* .order_by(Scan.scanned_at.desc()).all()
RECURSIVE OrderByScannedAtDesc(_)
OrderByScannedAtDesc(S) ==
    IF S = {} THEN <<>>
    ELSE LET m == CHOOSE s \in S : \A t \in S : t.scanned_at <= s.scanned_at
         IN <<m>> \o OrderByScannedAtDesc(S \ {m})

\* the response of the request that completes in this step
Respond(op, status, req, out) ==
    last' = [op |-> op, status |-> status, req |-> req, out |-> out]

Init ==
    /\ links = {}
    /\ scans = {}
    /\ nextLinkId = 1
    /\ nextScanId = 1
    /\ clock = 0
    /\ tracking = EmptyBag
    /\ creating = EmptyBag
    /\ last = [op |-> "none", status |-> 0, req |-> None, out |-> None]

(***************************************************************************)
(* IP geolocation                                                          *)
(***************************************************************************)
SkipIps == {"127.0.0.1", "::1", "testclient", "unknown"}

EmptyGeo ==
    [city |-> None, region |-> None, country |-> None, lat |-> None, lng |-> None, isp |-> None]

\* Mutant: except httpx.TimeoutException, which lets the other failures through.
ExceptTimeoutOnly(kind) == kind = "timeout"

\* except Exception: every failure of the lookup is an Exception
ExceptException(kind) == kind \in ExceptionKinds

\* geolocate_ip: the dict returned, the lookups issued, and whether an
\* exception leaves the function
geolocate_ip(ip, net) ==
    IF ip \in SkipIps
    THEN [geo |-> EmptyGeo, lookups |-> 0, raised |-> FALSE]
    ELSE IF net.kind = "response"
         THEN IF net.data.status = "success"
              THEN [geo |-> [city |-> net.data.city, region |-> net.data.regionName,
                             country |-> net.data.country, lat |-> net.data.lat,
                             lng |-> net.data.lon, isp |-> net.data.isp],
                    lookups |-> 1, raised |-> FALSE]
              ELSE [geo |-> EmptyGeo, lookups |-> 1, raised |-> FALSE]
         ELSE [geo |-> EmptyGeo, lookups |-> 1, raised |-> ~ExceptException(net.kind)]

\* get_client_ip: the first address of x-forwarded-for, else the peer, else "unknown"
get_client_ip(request) ==
    IF request.xff # None /\ request.xff # Some(<<"">>)
    THEN request.xff[1][1]
    ELSE IF request.client # None THEN request.client[1] ELSE "unknown"

(***************************************************************************)
(* GET /t/{slug}                                                           *)
(***************************************************************************)
\* Mutant: the Scan is given the id of the row where the id of its Link belongs.
NewScanWrongLink(link_id, client_ip, geo, request) ==
    [id |-> nextScanId, link_id |-> nextScanId, scanned_at |-> clock,
     ip_address |-> Some(client_ip),
     ip_city |-> geo.city, ip_region |-> geo.region, ip_country |-> geo.country,
     ip_lat |-> geo.lat, ip_lng |-> geo.lng, ip_isp |-> geo.isp,
     user_agent |-> request.user_agent, referer |-> request.referer,
     browser_lat |-> None, browser_lng |-> None, browser_accuracy |-> None]

\* Scan(link_id=..., ip_address=..., ...), with the column defaults
NewScan(link_id, client_ip, geo, request) ==
    [id |-> nextScanId, link_id |-> link_id, scanned_at |-> clock,
     ip_address |-> Some(client_ip),
     ip_city |-> geo.city, ip_region |-> geo.region, ip_country |-> geo.country,
     ip_lat |-> geo.lat, ip_lng |-> geo.lng, ip_isp |-> geo.isp,
     user_agent |-> request.user_agent, referer |-> request.referer,
     browser_lat |-> None, browser_lng |-> None, browser_accuracy |-> None]

\* lines 225-247: the insert, its commit, and the landing page
LogScan(link_id, slug, request, net) ==
    LET client_ip == get_client_ip(request)
        g == geolocate_ip(client_ip, net)
        req == [slug |-> slug, request |-> request, net |-> net]
    IN IF ~g.raised /\ ForeignKeyOk(link_id)
       THEN /\ scans' = scans \cup {NewScan(link_id, client_ip, g.geo, request)}
            /\ nextScanId' = nextScanId + 1
            /\ clock' = clock + 1
            /\ Respond("track_scan", 200, req,
                       [scan_id |-> Some(nextScanId), lookups |-> g.lookups])
       ELSE /\ UNCHANGED <<scans, nextScanId, clock>>
            /\ Respond("track_scan", 500, req, [scan_id |-> None, lookups |-> g.lookups])

\* the slug matches no Link
track_scan_not_found(slug, request) ==
    /\ LinkBySlug(slug) = None
    /\ Respond("track_scan", 404, [slug |-> slug, request |-> request, net |-> None],
               [scan_id |-> None, lookups |-> 0])
    /\ UNCHANGED <<links, scans, nextLinkId, nextScanId, clock, tracking, creating>>

\* the client address is one geolocate_ip answers without a lookup: no await suspends
track_scan_local(slug, request) ==
    /\ LinkBySlug(slug) # None
    /\ get_client_ip(request) \in SkipIps
    /\ nextScanId + BagCardinality(tracking) <= MaxScanId
    /\ LogScan(LinkBySlug(slug)[1].id, slug, request, None)
    /\ UNCHANGED <<links, nextLinkId, tracking, creating>>

\* the Link is read and the handler is suspended in the lookup
track_scan_suspend(slug, request) ==
    /\ LinkBySlug(slug) # None
    /\ get_client_ip(request) \notin SkipIps
    /\ nextScanId + BagCardinality(tracking) <= MaxScanId
    /\ BagCardinality(tracking) < MaxTracking
    /\ tracking' = tracking (+) SetToBag({[link_id |-> LinkBySlug(slug)[1].id,
                                           slug |-> slug, request |-> request]})
    /\ UNCHANGED <<links, scans, nextLinkId, nextScanId, clock, creating, last>>

\* the lookup ends and the handler goes on
track_scan_resume(t, net) ==
    /\ BagIn(t, tracking)
    /\ tracking' = tracking (-) SetToBag({t})
    /\ LogScan(t.link_id, t.slug, t.request, net)
    /\ UNCHANGED <<links, nextLinkId, creating>>

(***************************************************************************)
(* POST /t/{slug}/geo                                                      *)
(***************************************************************************)
\* Mutant: a field is set only if the body gives a value for it.
SetBrowserGeoIfGiven(scan, body) ==
    [scan EXCEPT !.browser_lat = IF body.lat # None THEN body.lat ELSE @,
                 !.browser_lng = IF body.lng # None THEN body.lng ELSE @,
                 !.browser_accuracy = IF body.accuracy # None THEN body.accuracy ELSE @]

\* Mutant: the browser position is written over the IP position as well.
SetBrowserGeoAndIp(scan, body) ==
    [scan EXCEPT !.browser_lat = body.lat, !.browser_lng = body.lng,
                 !.browser_accuracy = body.accuracy,
                 !.ip_lat = body.lat, !.ip_lng = body.lng]

\* lines 262-264: the three browser fields take the body's values
SetBrowserGeo(scan, body) ==
    [scan EXCEPT !.browser_lat = body.lat, !.browser_lng = body.lng,
                 !.browser_accuracy = body.accuracy]

\* if scan_id: the id is present and not 0
ScanIdGiven(body) == TruthyNum(body.scan_id)

\* table scans after the handler ran with this body
ScansAfterGeo(body) ==
    IF body.parse_ok /\ ScanIdGiven(body) /\ ScanById(body.scan_id[1]) # None
    THEN LET scan == ScanById(body.scan_id[1])[1]
         IN (scans \ {scan}) \cup {SetBrowserGeo(scan, body)}
    ELSE scans

receive_browser_geo(slug, body) ==
    /\ scans' = ScansAfterGeo(body)
    /\ Respond("receive_browser_geo", IF body.parse_ok THEN 200 ELSE 400,
               [slug |-> slug, body |-> body], [ok |-> body.parse_ok])
    /\ UNCHANGED <<links, nextLinkId, nextScanId, clock, tracking, creating>>

(***************************************************************************)
(* GET /dashboard/{slug}                                                   *)
(***************************************************************************)
\* lines 330-339: the map point of one scan, if it has one
MapPointsOfScan(scan) ==
    LET lat == OrNum(scan.browser_lat, scan.ip_lat)
        lng == OrNum(scan.browser_lng, scan.ip_lng)
    IN IF TruthyNum(lat) /\ TruthyNum(lng)
       THEN << [lat |-> lat[1], lng |-> lng[1],
                city |-> OrStr(scan.ip_city, Some("Unknown"))[1],
                time |-> scan.scanned_at,
                precise |-> scan.browser_lat # None] >>
       ELSE <<>>

\* lines 328-339: the points of the scans, in their order
RECURSIVE MapPoints(_)
MapPoints(ordered) ==
    IF ordered = <<>> THEN <<>>
    ELSE MapPointsOfScan(Head(ordered)) \o MapPoints(Tail(ordered))

\* lines 342-345: the distinct cities of the scans
UniqueCities(S) == {s.ip_city[1] : s \in {t \in S : TruthyStr(t.ip_city)}}

link_detail(slug) ==
    /\ IF LinkBySlug(slug) = None
       THEN Respond("link_detail", 404, [slug |-> slug], None)
       ELSE LET ordered == OrderByScannedAtDesc(ScansOfLink(LinkBySlug(slug)[1].id))
            IN Respond("link_detail", 200, [slug |-> slug],
                       [scans |-> [i \in 1..Len(ordered) |-> ordered[i].id],
                        map_points |-> MapPoints(ordered),
                        unique_cities |-> Cardinality(UniqueCities(ScansOfLink(LinkBySlug(slug)[1].id)))])
    /\ UNCHANGED <<links, scans, nextLinkId, nextScanId, clock, tracking, creating>>

(***************************************************************************)
(* POST /api/links                                                         *)
(***************************************************************************)
\* target_url.startswith(("http://", "https://"))
HasScheme(url) == url # <<>> /\ Head(url) \in {"http://", "https://"}

\* Mutant: the slug is trimmed and not lowercased.
CleanSlugKeepCase(data, generated) ==
    LET slug == Strip(data.slug) IN IF slug = <<>> THEN generated ELSE slug

\* lines 366-380: the slug and the target_url the handler goes on with
\* (generated: what generate_slug returns if it is called)
CleanSlug(data, generated) ==
    LET slug == Lower(Strip(data.slug)) IN IF slug = <<>> THEN generated ELSE slug
CleanUrl(data) ==
    LET target_url == Strip(data.target_url)
    IN IF HasScheme(target_url) THEN target_url ELSE <<"https://">> \o target_url

\* lines 386-394: the insert and its commit, under the store's unique constraint
InsertLink(slug, target_url, data) ==
    IF UniqueSlugOk(slug)
    THEN /\ links' = links \cup {[id |-> nextLinkId, slug |-> slug, target_url |-> target_url]}
         /\ nextLinkId' = nextLinkId + 1
         /\ Respond("create_link", 201, data,
                    [id |-> nextLinkId, slug |-> slug, target_url |-> target_url])
    ELSE /\ UNCHANGED <<links, nextLinkId>>
         /\ Respond("create_link", 500, data, None)

\* lines 371-372 and 382-384: the request is turned down before any insert
create_link_rejected(data, generated) ==
    /\ \/ /\ Strip(data.target_url) = <<>>
          /\ Respond("create_link", 400, data, None)
       \/ /\ Strip(data.target_url) # <<>>
          /\ LinkBySlug(CleanSlug(data, generated)) # None
          /\ Respond("create_link", 409, data, None)
    /\ UNCHANGED <<links, scans, nextLinkId, nextScanId, clock, tracking, creating>>

\* the handler on one event loop: nothing runs between the check and the commit
create_link(data, generated) ==
    \/ create_link_rejected(data, generated)
    \/ /\ Strip(data.target_url) # <<>>
       /\ LinkBySlug(CleanSlug(data, generated)) = None
       /\ nextLinkId <= MaxLinkId
       /\ InsertLink(CleanSlug(data, generated), CleanUrl(data), data)
       /\ UNCHANGED <<scans, nextScanId, clock, tracking, creating>>

\* with several workers: the duplicate check passed, the insert is still to come
create_link_check(data, generated) ==
    /\ Strip(data.target_url) # <<>>
    /\ LinkBySlug(CleanSlug(data, generated)) = None
    /\ nextLinkId + BagCardinality(creating) <= MaxLinkId
    /\ BagCardinality(creating) < MaxCreating
    /\ creating' = creating (+) SetToBag({[data |-> data,
                                           slug |-> CleanSlug(data, generated),
                                           target_url |-> CleanUrl(data)]})
    /\ UNCHANGED <<links, scans, nextLinkId, nextScanId, clock, tracking, last>>

create_link_commit(c) ==
    /\ BagIn(c, creating)
    /\ creating' = creating (-) SetToBag({c})
    /\ InsertLink(c.slug, c.target_url, c.data)
    /\ UNCHANGED <<scans, nextScanId, clock, tracking>>

(***************************************************************************)
(* DELETE /api/links/{slug}                                                *)
(***************************************************************************)
\* Mutant: the Scans of the Link are left in place.
ScansKept(link) == scans

\* db.query(Scan).filter(Scan.link_id == link.id).delete()
ScansAfterDelete(link) == {s \in scans : s.link_id # link.id}
\* db.delete(link)
LinksAfterDelete(link) == links \ {link}

delete_link(slug) ==
    /\ IF LinkBySlug(slug) = None
       THEN /\ Respond("delete_link", 404, [slug |-> slug], [ok |-> FALSE])
            /\ UNCHANGED <<links, scans>>
       ELSE /\ scans' = ScansAfterDelete(LinkBySlug(slug)[1])
            /\ links' = LinksAfterDelete(LinkBySlug(slug)[1])
            /\ Respond("delete_link", 200, [slug |-> slug], [ok |-> TRUE])
    /\ UNCHANGED <<nextLinkId, nextScanId, clock, tracking, creating>>

(***************************************************************************)
(* GET /api/links/{slug}/export                                            *)
(***************************************************************************)
\* x or "" of a number and of a string, as csv.writer prints it
NumOrEmpty(o) == IF TruthyNum(o) THEN o[1] ELSE ""
StrOrEmpty(o) == IF TruthyStr(o) THEN o[1] ELSE ""

\* lines 436-442: one row of the CSV
CsvRow(s) ==
    << s.scanned_at, StrOrEmpty(s.ip_city), StrOrEmpty(s.ip_region), StrOrEmpty(s.ip_country),
       NumOrEmpty(s.ip_lat), NumOrEmpty(s.ip_lng),
       NumOrEmpty(s.browser_lat), NumOrEmpty(s.browser_lng), NumOrEmpty(s.browser_accuracy),
       StrOrEmpty(s.ip_address), StrOrEmpty(s.user_agent) >>

export_scans_csv(slug) ==
    /\ IF LinkBySlug(slug) = None
       THEN Respond("export_scans_csv", 404, [slug |-> slug], None)
       ELSE LET ordered == OrderByScannedAtDesc(ScansOfLink(LinkBySlug(slug)[1].id))
            IN Respond("export_scans_csv", 200, [slug |-> slug],
                       [i \in 1..Len(ordered) |-> CsvRow(ordered[i])])
    /\ UNCHANGED <<links, scans, nextLinkId, nextScanId, clock, tracking, creating>>

(***************************************************************************)
(* Specifications                                                          *)
(***************************************************************************)
\* the requests every deployment serves alike
Serve ==
    \/ \E slug \in PathSlugs, request \in Requests : track_scan_not_found(slug, request)
    \/ \E slug \in PathSlugs, request \in Requests : track_scan_local(slug, request)
    \/ \E slug \in PathSlugs, request \in Requests : track_scan_suspend(slug, request)
    \/ \E t \in BagToSet(tracking), net \in NetOutcomes : track_scan_resume(t, net)
    \/ \E slug \in PathSlugs, body \in GeoBodies : receive_browser_geo(slug, body)
    \/ \E slug \in PathSlugs : link_detail(slug)
    \/ \E slug \in PathSlugs : delete_link(slug)
    \/ \E slug \in PathSlugs : export_scans_csv(slug)

\* one worker process, one event loop
Next ==
    \/ Serve
    \/ \E data \in CreateBodies, generated \in GeneratedSlugs : create_link(data, generated)

Spec == Init /\ [][Next]_vars

\* several worker processes on one store
NextWorkers ==
    \/ Serve
    \/ \E data \in CreateBodies, generated \in GeneratedSlugs : create_link_rejected(data, generated)
    \/ \E data \in CreateBodies, generated \in GeneratedSlugs : create_link_check(data, generated)
    \/ \E c \in BagToSet(creating) : create_link_commit(c)

SpecWorkers == Init /\ [][NextWorkers]_vars

(***************************************************************************)
(* Properties                                                              *)
(***************************************************************************)
\* This step ends a request of handler op with a response (a step that only
\* suspends a handler adds it to tracking or creating and answers nothing).
Completes(op) ==
    /\ last'.op = op
    /\ BagCardinality(tracking') <= BagCardinality(tracking)
    /\ BagCardinality(creating') <= BagCardinality(creating)

\* the rows of links with exactly this slug
Matching(slug) == {l \in links : l.slug = slug}

\* The Links a track_scan that ends in this step has read and that are still
\* rows of links: for a handler resumed from the lookup the Link it read
\* before, for a handler that ran through the Link of its slug.
LinkReadAndPresent ==
    IF tracking' # tracking
    THEN {l \in links : \E t \in BagToSet(tracking) :
              /\ tracking' = tracking (-) SetToBag({t})
              /\ t.slug = last'.req.slug
              /\ t.link_id = l.id}
    ELSE Matching(last'.req.slug)

NoDuplicateSlug == \A l1, l2 \in links : l1.slug = l2.slug => l1 = l2

\* the slug of a create_link body after trimming and lowercasing
Trimmed(slug) == Lower(Strip(slug))

\* C2 as claimed: no two Link rows ever have the same slug, and every create_link
\* request whose slug, trimmed and lowercased, is the slug of an existing Link
\* answers 409 and adds no Link row.
C2_DuplicateSlugAlways409 ==
    /\ []NoDuplicateSlug
    /\ [][(Completes("create_link") /\ Matching(Trimmed(last'.req.slug)) # {}) =>
            (last'.status = 409 /\ links' = links)]_vars

\* C2, amended: no two Link rows ever have the same slug; a create_link request
\* whose slug, trimmed and lowercased, is the slug of an existing Link adds no
\* Link row, and it answers 409 if its target_url is not empty after trimming
\* and 400 if it is.
C2_DuplicateSlugRejected ==
    /\ []NoDuplicateSlug
    /\ [][(Completes("create_link") /\ Matching(Trimmed(last'.req.slug)) # {}) =>
            /\ links' = links
            /\ last'.status = IF Strip(last'.req.target_url) = <<>> THEN 400 ELSE 409]_vars

C2_Witness ==
    /\ last.op = "create_link"
    /\ last.status = 409
    /\ last.req.slug = <<" ", "A", " ">>
    /\ \E l \in links : l.slug = <<"a">>

\* the row of scans that a geo body names, if there is one
Resolved(body) == {s \in scans : body.scan_id = Some(s.id)}

\* C3: POST /t/{slug}/geo with a JSON body answers {ok: true}; if its scan_id
\* is the id of a Scan, that row's browser_lat, browser_lng and
\* browser_accuracy become the body's lat, lng and accuracy (None where the
\* body has none) and nothing else changes; if it is the id of no Scan, no
\* row changes.  The same call once more changes nothing.
C3_GeoOverwrites ==
    /\ [][(Completes("receive_browser_geo") /\ last'.req.body.parse_ok) =>
            LET body == last'.req.body
            IN /\ last'.status = 200
               /\ last'.out.ok = TRUE
               /\ links' = links
               /\ \A s \in scans \ Resolved(body) : s \in scans'
               /\ \A s \in Resolved(body) :
                     [s EXCEPT !.browser_lat = body.lat, !.browser_lng = body.lng,
                               !.browser_accuracy = body.accuracy] \in scans'
               /\ Cardinality(scans') = Cardinality(scans)]_vars
    /\ [](last.op = "receive_browser_geo" => ScansAfterGeo(last.req.body) = scans)

C3_Witness ==
    /\ last.op = "receive_browser_geo"
    /\ last.status = 200
    /\ last.req.body.lat = None
    /\ \E s \in Resolved(last.req.body) : s.browser_lat = None /\ s.browser_accuracy = None

\* C4: DELETE /api/links/{slug} for the slug of a Link removes that Link and
\* every Scan with its link_id: afterwards no row of links has its id or slug,
\* no row of scans has the id of one of those Scans, and no row of scans has
\* the Link's id as link_id.
C4_DeleteCascades ==
    [][(Completes("delete_link") /\ Matching(last'.req.slug) # {}) =>
        /\ last'.status = 200
        /\ \A l \in Matching(last'.req.slug) :
              /\ \A k \in links' : k.id # l.id /\ k.slug # l.slug
              /\ \A s \in scans : s.link_id = l.id => \A t \in scans' : t.id # s.id
              /\ \A t \in scans' : t.link_id # l.id]_vars

C4_Witness ==
    /\ last.op = "delete_link"
    /\ last.status = 200
    /\ nextLinkId = 2
    /\ nextScanId = 3
    /\ links = {}
    /\ scans = {}

\* C5: every row of scans references a row of links, in every reachable state
\* and whatever runs while a track_scan is suspended in the lookup.
C5_ScanReferencesLink == \A s \in scans : \E l \in links : l.id = s.link_id

\* a track_scan resumed from the lookup after its Link was deleted
C5_Witness ==
    /\ last.op = "track_scan"
    /\ last.status = 500
    /\ Matching(last.req.slug) = {}

\* the handlers that look the slug of their path up
LooksSlugUp == {"track_scan", "link_detail", "delete_link", "export_scans_csv"}

\* This step ends a request that began in this step's first state (a
\* track_scan resumed from the lookup began earlier).
CompletesAtOnce(op) == Completes(op) /\ tracking' = tracking

\* C6 as claimed: every request to one of the five routes whose path slug
\* matches no Link answers 404 and leaves links and scans unchanged (of the
\* geo callbacks, those with a JSON body are looked at).
C6_UnknownSlugAlways404 ==
    [][\A op \in LooksSlugUp \cup {"receive_browser_geo"} :
          (/\ CompletesAtOnce(op)
           /\ Matching(last'.req.slug) = {}
           /\ op = "receive_browser_geo" => last'.req.body.parse_ok) =>
              (last'.status = 404 /\ links' = links /\ scans' = scans)]_vars

\* C6, amended: a request to GET /t/{slug}, GET /dashboard/{slug},
\* DELETE /api/links/{slug} or GET /api/links/{slug}/export whose slug matches
\* no Link answers 404 and leaves links and scans unchanged.
\* POST /t/{slug}/geo does not look its slug up: with such a slug it answers
\* 200 (400 for a body that is no JSON), never 404, leaves links unchanged and
\* still overwrites the browser fields of the Scan its scan_id names.
C6_UnknownSlug ==
    [][/\ \A op \in LooksSlugUp :
             (CompletesAtOnce(op) /\ Matching(last'.req.slug) = {}) =>
                 (last'.status = 404 /\ links' = links /\ scans' = scans)
       /\ (CompletesAtOnce("receive_browser_geo") /\ Matching(last'.req.slug) = {}) =>
             LET body == last'.req.body
             IN /\ last'.status = IF body.parse_ok THEN 200 ELSE 400
                /\ links' = links
                /\ \A s \in scans \ Resolved(body) : s \in scans'
                /\ body.parse_ok =>
                      \A s \in Resolved(body) : \E t \in scans' :
                          /\ t.id = s.id
                          /\ t.browser_lat = body.lat
                          /\ t.browser_lng = body.lng
                          /\ t.browser_accuracy = body.accuracy]_vars

\* a geo callback under a slug of no Link has filled the browser fields of a Scan
C6_Witness ==
    /\ last.op = "receive_browser_geo"
    /\ last.status = 200
    /\ Matching(last.req.slug) = {}
    /\ \E s \in Resolved(last.req.body) : s.browser_lat = Some(10)

\* the map points of the response that belong to a Scan (a point carries the
\* time of its Scan, and no two Scans have the same)
PointsOf(points, scan) == {i \in 1..Len(points) : points[i].time = scan.scanned_at}

HasIp(scan) == scan.ip_lat # None /\ scan.ip_lng # None
HasBrowser(scan) == scan.browser_lat # None /\ scan.browser_lng # None
NoIp(scan) == scan.ip_lat = None /\ scan.ip_lng = None
NoBrowser(scan) == scan.browser_lat = None /\ scan.browser_lng = None

\* C7 as claimed: in the response of link_detail, a Scan of the Link with IP and
\* browser coordinates has exactly one point, at the browser coordinates and
\* precise; a Scan with IP coordinates only has exactly one point, at the IP
\* coordinates and not precise; a Scan with neither has no point; whatever
\* the coordinates are, 0 included.
C7_MapPoints ==
    [][(Completes("link_detail") /\ last'.status = 200) =>
        \A l \in Matching(last'.req.slug) : \A s \in ScansOfLink(l.id) :
            LET points == last'.out.map_points
                mine == PointsOf(points, s)
            IN /\ (HasIp(s) /\ HasBrowser(s)) =>
                      /\ Cardinality(mine) = 1
                      /\ \A i \in mine : /\ points[i].lat = s.browser_lat[1]
                                         /\ points[i].lng = s.browser_lng[1]
                                         /\ points[i].precise = TRUE
               /\ (HasIp(s) /\ NoBrowser(s)) =>
                      /\ Cardinality(mine) = 1
                      /\ \A i \in mine : /\ points[i].lat = s.ip_lat[1]
                                         /\ points[i].lng = s.ip_lng[1]
                                         /\ points[i].precise = FALSE
               /\ (NoIp(s) /\ NoBrowser(s)) => mine = {}]_vars

\* whether the lookup of a track_scan request ended in success
LookupSucceeded(req) ==
    /\ get_client_ip(req.request) \notin SkipIps
    /\ req.net.kind = "response"
    /\ req.net.data.status = "success"

\* C8: a track_scan whose Link is a row of the store when the handler inserts
\* answers 200 whatever the lookup did, after at most one lookup (none for an
\* address geolocate_ip skips), and has created the Scan row with the
\* request's client address, user-agent and referer; unless the lookup
\* succeeded, the row's ip_city, ip_region, ip_country, ip_lat, ip_lng and
\* ip_isp are all None.
C8_LookupFailureNotSurfaced ==
    [][(Completes("track_scan") /\ LinkReadAndPresent # {}) =>
        LET req == last'.req
        IN /\ last'.status = 200
           /\ last'.out.lookups <= 1
           /\ get_client_ip(req.request) \in SkipIps => last'.out.lookups = 0
           /\ \E new \in scans' \ scans :
                 /\ last'.out.scan_id = Some(new.id)
                 /\ new.ip_address = Some(get_client_ip(req.request))
                 /\ new.user_agent = req.request.user_agent
                 /\ new.referer = req.request.referer
                 /\ ~LookupSucceeded(req) =>
                       /\ new.ip_city = None /\ new.ip_region = None
                       /\ new.ip_country = None /\ new.ip_isp = None
                       /\ new.ip_lat = None /\ new.ip_lng = None]_vars

\* a Scan logged after a lookup that ended in a network error
C8_Witness ==
    /\ last.op = "track_scan"
    /\ last.status = 200
    /\ last.req.net # None
    /\ last.req.net.kind = "network_error"
    /\ \E s \in scans : /\ last.out.scan_id = Some(s.id)
                        /\ s.ip_address = Some("8.8.8.8")
                        /\ s.user_agent = Some("ua")
                        /\ s.ip_city = None

\* C9 as claimed: with several workers, no two Link rows have the same slug,
\* and a create_link request with a target_url that creates no row is answered
\* 409.
C9_RaceLoserGets409 ==
    /\ NoDuplicateSlug
    /\ (last.op = "create_link" /\ last.status # 201 /\ Strip(last.req.target_url) # <<>>) =>
           last.status = 409

\* what becomes of a row of scans in this step
Successors(s) == {t \in scans' : t.id = s.id}
OnlyBrowserFieldsDiffer(s, t) ==
    t = [s EXCEPT !.browser_lat = t.browser_lat, !.browser_lng = t.browser_lng,
                  !.browser_accuracy = t.browser_accuracy]
RemovedWithItsLink(s) ==
    /\ Completes("delete_link")
    /\ \E l \in links : l.id = s.link_id /\ l.slug = last'.req.slug /\ l \notin links'
Unmutated(s) ==
    s.browser_lat = None /\ s.browser_lng = None /\ s.browser_accuracy = None

\* C10 as claimed: a Scan row leaves the table only when delete_link deletes its
\* Link; it changes only by a geo callback, only in its three browser fields,
\* and only once: a row that was changed (it is created with the three
\* fields None) does not change again.
C10_ScanMutatedAtMostOnce ==
    [][\A s \in scans :
          /\ Successors(s) = {} => RemovedWithItsLink(s)
          /\ \A t \in Successors(s) : t # s =>
                /\ Completes("receive_browser_geo")
                /\ OnlyBrowserFieldsDiffer(s, t)
                /\ Unmutated(s)]_vars

\* C10, amended: a Scan row leaves the table only when delete_link deletes its
\* Link; it changes only by a geo callback and only in its three browser
\* fields (any number of times: each callback overwrites them); its id,
\* link_id, scanned_at, IP fields, user_agent and referer never change.
C10_ScanLifecycle ==
    [][\A s \in scans :
          /\ Successors(s) = {} => RemovedWithItsLink(s)
          /\ Cardinality(Successors(s)) <= 1
          /\ \A t \in Successors(s) : t # s =>
                /\ Completes("receive_browser_geo")
                /\ OnlyBrowserFieldsDiffer(s, t)]_vars

\* a Scan with IP fields from a lookup whose browser fields a callback has filled
C10_Witness ==
    /\ last.op = "receive_browser_geo"
    /\ \E s \in Resolved(last.req.body) :
          /\ s.ip_lat = Some(5)
          /\ s.browser_lat = Some(0)
          /\ s.browser_accuracy = Some(7)

====
